---- MODULE Spec2Model ----
(***************************************************************************)
(* A model of the retrieval layer of corpus-rag-skeleton:                  *)
(*   skeleton_core/vector_store.py  VectorStore (chunk_text,               *)
(*       ingest_document, search, list_documents, delete_document)         *)
(*   skeleton_core/app.py           create_app (/documents, /chat)         *)
(*                                                                         *)
(* Texts are sequences of one-character strings; document identifiers and  *)
(* chunk ids are strings.  Distances are cosine distances in hundredths,   *)
(* so RELEVANCE_THRESHOLD = 0.3 is the integer 30.                         *)
(*                                                                         *)
(* The specifications share the variables:                                 *)
(*   SpecChunk  VectorStore.__init__ and the loop of chunk_text, one       *)
(*              iteration per step;                                        *)
(*   SpecStore  one store: ingest_document and the /documents routes;      *)
(*   Spec       the store behind one app: ingest_document, /upload, the    *)
(*              /documents routes, search and /chat, each handler one      *)
(*              step;                                                      *)
(*   SpecShared several VectorStore instances in one process;              *)
(*   SpecConc   calls of ingest_document, delete_document, list_documents  *)
(*              and search running in threads on one store, one store or   *)
(*              embedding call per step;                                   *)
(*   SpecQueue  the upload queue of tests/test_sequential_upload.py        *)
(*              (MockUploadQueue), one method body per step.               *)
(***************************************************************************)
EXTENDS Integers, Sequences, FiniteSets, TLC

VARIABLES cfg, ck, collection, last, active_model, threads, uploadQueue

vars == <<cfg, ck, collection, last, active_model, threads, uploadQueue>>

----------------------------------------------------------------------------
(* Bounds of the model                                                     *)

\* longest text handed to chunk_text in SpecChunk
MaxTextLen == 4
\* largest chunk_size / overlap argument passed to chunk_text in SpecChunk
MaxChunkArg == 3
\* longest page list handed to ingest_document
MaxPages == 2
\* number of files handed to the upload queue in SpecQueue
MaxUploads == 4

\* characters of the modelled texts; Whitespace is what str.strip() removes
Whitespace == {" "}
Alphabet == {"a", "b"} \cup Whitespace

\* an infinite chunking loop is cut after this many iterations; a loop that
\* advances makes at most Len(text) <= MaxTextLen iterations
MaxIter == MaxTextLen + 2

----------------------------------------------------------------------------
(* Python helpers                                                          *)

\* an optional argument: None, or a value
None == <<>>
Some(n) == <<n>>

\* no call is in flight: the handlers of the sequential specifications run
\* from entry to return in one step
NoThreads == <<>>

\* MockUploadQueue.__init__ (tests/test_sequential_upload.py 25-30): an empty
\* queue, nothing processed.  pc (ghost): the method the queue is in.
\* added (ghost): the ids handed to add(), in call order.
NoQueue ==
    [queue |-> <<>>, is_processing |-> FALSE, completed_uploads |-> <<>>,
     failed_uploads |-> <<>>, processing_order |-> <<>>, pc |-> "idle", added |-> <<>>]

\* x or d, for an optional integer x: None and 0 are falsy
PyOr(x, d) == IF x = None THEN d ELSE IF x[1] = 0 THEN d ELSE x[1]

MinOf(a, b) == IF a < b THEN a ELSE b
MaxOf(a, b) == IF a > b THEN a ELSE b

\* a slice index of a sequence of length n: negative counts from the end,
\* and the result is clamped to 0..n
SliceIndex(i, n) == IF i < 0 THEN MaxOf(i + n, 0) ELSE MinOf(i, n)

\* text[a:b]
PySlice(text, a, b) ==
    LET lo == SliceIndex(a, Len(text))
        hi == SliceIndex(b, Len(text))
    IN  IF lo < hi THEN SubSeq(text, lo + 1, hi) ELSE <<>>

\* number of whitespace characters at the start of s
LeadingSpace(s) ==
    LET nonws == {i \in 1..Len(s) : s[i] \notin Whitespace}
    IN  IF nonws = {} THEN Len(s)
        ELSE (CHOOSE i \in nonws : \A j \in nonws : i <= j) - 1

\* s.strip()
Strip(s) ==
    LET nonws == {i \in 1..Len(s) : s[i] \notin Whitespace}
    IN  IF nonws = {} THEN <<>>
        ELSE SubSeq(s, CHOOSE i \in nonws : \A j \in nonws : i <= j,
                       CHOOSE i \in nonws : \A j \in nonws : i >= j)

----------------------------------------------------------------------------
(* VectorStore.chunk_text                                                  *)

\* the step taken with the overlap added instead of subtracted
ChunkAdvancePlus(start, chunk_size, overlap) == start + chunk_size + overlap

\* start += chunk_size - overlap, written with the operands exchanged
ChunkAdvanceSwapped(start, chunk_size, overlap) == start + overlap - chunk_size

\* start += chunk_size - overlap
ChunkAdvance(start, chunk_size, overlap) == start + chunk_size - overlap

\* the window is cut one character short
ChunkWindowShort(text, start, chunk_size) ==
    Strip(PySlice(text, start, start + chunk_size - 1))

\* end = start + chunk_size; chunk = text[start:end]; chunk.strip()
ChunkWindow(text, start, chunk_size) ==
    Strip(PySlice(text, start, start + chunk_size))

\* one iteration of the while loop on the loop state st = [start, chunks]
ChunkIter(text, chunk_size, overlap, st) ==
    [start  |-> ChunkAdvance(st.start, chunk_size, overlap),
     chunks |-> Append(st.chunks, ChunkWindow(text, st.start, chunk_size))]

RECURSIVE ChunkRun(_, _, _, _)
\* while start < text_length: ...; return chunks
ChunkRun(text, chunk_size, overlap, st) ==
    IF st.start < Len(text)
    THEN ChunkRun(text, chunk_size, overlap, ChunkIter(text, chunk_size, overlap, st))
    ELSE st.chunks

\* chunk_text(text) with the instance defaults c = [chunk_size, chunk_overlap]
ChunkText(text, c) ==
    ChunkRun(text, PyOr(None, c.chunk_size), PyOr(None, c.chunk_overlap),
             [start |-> 0, chunks |-> <<>>])

----------------------------------------------------------------------------
(* SpecChunk: VectorStore.__init__ and chunk_text, one loop iteration per  *)
(* step                                                                    *)

Texts == UNION {[1..n -> Alphabet] : n \in 0..MaxTextLen}

\* chunk_size / overlap arguments of chunk_text: omitted (None) or an integer
ChunkArgs == {None} \cup {Some(n) : n \in 0..MaxChunkArg}

\* (chunk_size, chunk_overlap) pairs handed to the constructor: the code
\* accepts every pair, also those with chunk_overlap >= chunk_size
InstanceConfigs == {<<2, 1>>, <<3, 1>>, <<3, 2>>, <<1, 0>>, <<2, 2>>, <<1, 2>>}

NoConfig == [constructed |-> FALSE, chunk_size |-> 0, chunk_overlap |-> 0]

\* the value a caller asks for with an optional argument: the integer
\* passed, or the instance default when the argument is None
Given(x, d) == IF x = None THEN d ELSE x[1]

IdleCk ==
    [pc |-> "idle", text |-> <<>>, chunk_size |-> 0, overlap |-> 0,
     defaults |-> FALSE, given |-> [chunk_size |-> 0, overlap |-> 0],
     start |-> 0, chunks |-> <<>>, starts |-> <<>>]

\* VectorStore.__init__: stores chunk_size and chunk_overlap as given
VectorStoreInit(chunk_size, chunk_overlap) ==
    [constructed |-> TRUE, chunk_size |-> chunk_size, chunk_overlap |-> chunk_overlap]

Construct ==
    /\ ~cfg.constructed
    /\ \E c \in InstanceConfigs : cfg' = VectorStoreInit(c[1], c[2])
    /\ UNCHANGED <<ck, collection, last, active_model, threads, uploadQueue>>

\* entry of chunk_text up to the loop head: the two `or` defaults, start = 0.
\* chunk_text keeps no state between calls, so a behaviour follows one call.
\* Ghost fields of ck: defaults (both arguments were None), given (what the
\* caller asked for), starts (the offset of each window).
ChunkTextCall ==
    /\ cfg.constructed
    /\ ck.pc = "idle"
    /\ \E text \in Texts, cs \in ChunkArgs, ov \in ChunkArgs :
         ck' = [pc         |-> "loop",
                text       |-> text,
                chunk_size |-> PyOr(cs, cfg.chunk_size),
                overlap    |-> PyOr(ov, cfg.chunk_overlap),
                defaults   |-> (cs = None /\ ov = None),
                given      |-> [chunk_size |-> Given(cs, cfg.chunk_size),
                                overlap    |-> Given(ov, cfg.chunk_overlap)],
                start      |-> 0,
                chunks     |-> <<>>,
                starts     |-> <<>>]
    /\ UNCHANGED <<cfg, collection, last, active_model, threads, uploadQueue>>

\* one iteration of `while start < text_length`; starts records the offset
\* each window was taken at
ChunkLoop ==
    /\ ck.pc = "loop"
    /\ ck.start < Len(ck.text)
    /\ Len(ck.chunks) < MaxIter
    /\ LET st == ChunkIter(ck.text, ck.chunk_size, ck.overlap,
                           [start |-> ck.start, chunks |-> ck.chunks])
       IN  ck' = [ck EXCEPT !.start = st.start, !.chunks = st.chunks,
                            !.starts = Append(ck.starts, ck.start)]
    /\ UNCHANGED <<cfg, collection, last, active_model, threads, uploadQueue>>

\* the loop condition fails: return chunks
ChunkReturn ==
    /\ ck.pc = "loop"
    /\ ~(ck.start < Len(ck.text))
    /\ ck' = [ck EXCEPT !.pc = "done"]
    /\ UNCHANGED <<cfg, collection, last, active_model, threads, uploadQueue>>

----------------------------------------------------------------------------
(* The embedding service and the Chroma collection                         *)

\* genai.embed_content(model, content, task_type) answers a vector, an empty
\* vector, or raises.  A vector is modelled as a point on a line and the
\* cosine distance of two vectors as their separation, in hundredths.  The
\* same text has one vector as a document and another as a query.
VectorOf(content, task_type) ==
    IF task_type = "retrieval_document"
    THEN CASE content = <<"a", "b">> -> 10
           [] content = <<"b">>      -> 40
           [] content = <<"a">>      -> 50
           [] OTHER                  -> 25
    ELSE CASE content = <<"q", "0">> -> 0
           [] content = <<"q", "1">> -> 20
           [] OTHER                  -> 45

Distance(u, v) == IF u < v THEN v - u ELSE u - v

\* get_embedding(text): embed_content(..., task_type="retrieval_document");
\* the task type the call is made with and the vector it returns
GetEmbedding(text) ==
    [task_type |-> "retrieval_document",
     vector    |-> VectorOf(text, "retrieval_document")]

\* the query is embedded by a call of get_embedding
EmbedQueryAsDocument(query) == GetEmbedding(query)

\* lines 156-161 of search: embed_content(..., task_type="retrieval_query")
EmbedQuery(query) ==
    [task_type |-> "retrieval_query",
     vector    |-> VectorOf(query, "retrieval_query")]

\* f"{document_id}_p{page_num}_{i}"
ChunkId(document_id, page_num, i) ==
    document_id \o "_p" \o ToString(page_num) \o "_" \o ToString(i)

IdsOf(coll) == {c.id : c \in coll}

\* collection.get(where={"source": source})
WithSource(coll, source) == {c \in coll : c.metadata.source = source}

\* collection.add that stores every entry of the batch, also one whose id is
\* already stored
CollectionAddKeepingDuplicates(coll, entries) ==
    [raised |-> FALSE,
     coll   |-> coll \cup {entries[k] : k \in 1..Len(entries)}]

\* collection.upsert in place of collection.add: an entry whose id is already
\* stored replaces the stored record
CollectionUpsert(coll, entries) ==
    LET ids == {entries[k].id : k \in 1..Len(entries)}
    IN  [raised |-> FALSE,
         coll   |-> {c \in coll : c.id \notin ids} \cup {entries[k] : k \in 1..Len(entries)}]

\* collection.add(ids, embeddings, documents, metadatas).  A Chroma collection
\* is keyed by id: a batch that names an id twice is refused with
\* DuplicateIDError, and an entry whose id is already stored is left out (the
\* stored record stays as it is).
CollectionAdd(coll, entries) ==
    IF \E j, k \in 1..Len(entries) : j # k /\ entries[j].id = entries[k].id
    THEN [raised |-> TRUE, coll |-> coll]
    ELSE [raised |-> FALSE,
          coll   |-> coll \cup {entries[k] : k \in {k \in 1..Len(entries) :
                                                      entries[k].id \notin IdsOf(coll)}}]

----------------------------------------------------------------------------
(* VectorStore.ingest_document                                             *)

\* the chunks of one page with their enumerate() index
PageChunks(page_data, c) ==
    LET chunks == ChunkText(page_data.text, c)
    IN  [k \in 1..Len(chunks) |->
           [page |-> page_data.page, i |-> k - 1, chunk |-> chunks[k]]]

RECURSIVE AllChunks(_, _)
\* for page_data in file_data: for i, chunk in enumerate(chunks)
AllChunks(file_data, c) ==
    IF file_data = <<>> THEN <<>>
    ELSE PageChunks(Head(file_data), c) \o AllChunks(Tail(file_data), c)

\* a chunk is embedded unless it is empty: `if not chunk: continue`
Embedded(file_data, c) ==
    SelectSeq(AllChunks(file_data, c), LAMBDA e : e.chunk # <<>>)

\* the loop keeps every chunk, also the empty ones and those without a vector
KeptWithoutSkipping(file_data, c, embed) == AllChunks(file_data, c)

\* the chunks that reach the batch: non-empty, and `if embed:` a non-empty vector
Kept(file_data, c, embed) ==
    SelectSeq(Embedded(file_data, c), LAMBDA e : embed[e.chunk] = "vector")

\* ids, embeddings, documents, metadatas of the batch; chunk_counter numbers
\* the kept chunks of the whole document
BatchOf(file_data, document_id, c, embed) ==
    LET kept == Kept(file_data, c, embed)
    IN  [k \in 1..Len(kept) |->
           [id        |-> ChunkId(document_id, kept[k].page, kept[k].i),
            embedding |-> GetEmbedding(kept[k].chunk).vector,
            document  |-> kept[k].chunk,
            metadata  |-> [chunk_index |-> k - 1,
                           source      |-> document_id,
                           page        |-> kept[k].page]]]

\* the get_embedding calls ingest_document makes: one per non-empty chunk, up
\* to and including the first that raises
EmbedCalls(file_data, c, embed) ==
    LET embedded == Embedded(file_data, c)
        failing  == {k \in 1..Len(embedded) : embed[embedded[k].chunk] = "error"}
    IN  IF failing = {} THEN Len(embedded)
        ELSE CHOOSE k \in failing : \A j \in failing : k <= j

\* ingest_document up to the batch add: the loops over pages and chunks, with
\* the embedding service answering embed[chunk] for each chunk.  raised: an
\* embedding call raised; expected (ghost): the chunks, over all pages, that
\* are non-empty after trimming and for which the service answered a vector;
\* modes (ghost): the task type of each embedding call made, in call order.
PrepareBatch(file_data, document_id, c, embed) ==
    LET embedded == Embedded(file_data, c)
        chunks   == [p \in 1..Len(file_data) |-> ChunkText(file_data[p].text, c)]
    IN  [raised   |-> \E k \in 1..Len(embedded) : embed[embedded[k].chunk] = "error",
         batch    |-> BatchOf(file_data, document_id, c, embed),
         modes    |-> [k \in 1..EmbedCalls(file_data, c, embed) |->
                         GetEmbedding(embedded[k].chunk).task_type],
         expected |-> Cardinality(
             {pk \in UNION {{<<p, k>> : k \in 1..Len(chunks[p])} : p \in 1..Len(file_data)} :
                /\ Strip(chunks[pk[1]][pk[2]]) # <<>>
                /\ embed[chunks[pk[1]][pk[2]]] = "vector"})]

\* the chunks embedded so far are added although an embedding call raised
StoreBatchKeepingEmbedded(coll, prepared) ==
    [raised |-> prepared.raised,
     coll   |-> coll \cup {prepared.batch[k] : k \in 1..Len(prepared.batch)},
     count  |-> 0]

\* after collection.add: `return len(ids)`, unless the add raised
Added(added, n) ==
    [raised |-> added.raised, coll |-> added.coll,
     count  |-> IF added.raised THEN 0 ELSE n]

\* `if ids: self.collection.add(...)`; `return len(ids)`, for a prepared
\* batch.  raised: an embedding call or collection.add raised; count: the
\* value returned.
StoreBatch(coll, prepared) ==
    IF prepared.raised
    THEN [raised |-> TRUE, coll |-> coll, count |-> 0]
    ELSE IF prepared.batch = <<>>
    THEN [raised |-> FALSE, coll |-> coll, count |-> 0]
    ELSE Added(CollectionAdd(coll, prepared.batch), Len(prepared.batch))

\* ingest_document(file_data, document_id) against the collection coll
IngestDocument(coll, file_data, document_id, c, embed) ==
    StoreBatch(coll, PrepareBatch(file_data, document_id, c, embed))

----------------------------------------------------------------------------
(* VectorStore.search                                                      *)

\* an optional list: `if filter_sources:` is false for None and for []
Truthy(x) == x # None /\ x[1] # <<>>

Elems(seq) == {seq[k] : k \in 1..Len(seq)}

\* where_filter = {"source": {"$in": filter_sources}} if filter_sources, else
\* None: the chunks collection.query ranks
Candidates(coll, filter_sources) ==
    IF Truthy(filter_sources)
    THEN {c \in coll : c.metadata.source \in Elems(filter_sources[1])}
    ELSE coll

RECURSIVE Ranked(_, _, _)
\* collection.query(query_embeddings, n_results, where): the n_results nearest
\* candidates (all of them if there are fewer), nearest first.  Which of two
\* candidates at the same distance comes first is the database's choice, so
\* this is the set of rankings it may return.
Ranked(cands, query_embedding, n_results) ==
    IF n_results = 0 \/ cands = {} THEN {<<>>}
    ELSE UNION {{<<c>> \o rest : rest \in Ranked(cands \ {c}, query_embedding, n_results - 1)} :
                  c \in {c \in cands : \A d \in cands :
                           Distance(query_embedding, c.embedding)
                             <= Distance(query_embedding, d.embedding)}}

\* the matches search returns for one ranking: text, metadata, distance
Matches(ranking, query_embedding) ==
    [k \in 1..Len(ranking) |->
       [text     |-> ranking[k].document,
        metadata |-> ranking[k].metadata,
        distance |-> Distance(query_embedding, ranking[k].embedding)]]

\* search(query, n_results, filter_sources) once the query is embedded: the
\* match lists it may return
Search(coll, query, n_results, filter_sources) ==
    LET query_embedding == EmbedQuery(query).vector
    IN  {Matches(ranking, query_embedding) :
           ranking \in Ranked(Candidates(coll, filter_sources), query_embedding, n_results)}

----------------------------------------------------------------------------
(* VectorStore.list_documents and delete_document                          *)

\* the document identifiers of the model, in ascending string order
DocIds == <<"B.PDF", "a.txt", "b.pdf">>

\* the chunk count of an entry is taken from its set of pages
ListDocumentsCountingPages(coll) ==
    LET present == SelectSeq(DocIds, LAMBDA d : WithSource(coll, d) # {})
    IN  [k \in 1..Len(present) |->
           [source |-> present[k],
            pages  |-> Cardinality({c.metadata.page : c \in WithSource(coll, present[k])}),
            chunks |-> Cardinality({c.metadata.page : c \in WithSource(coll, present[k])})]]

\* one entry per source: distinct pages and chunks, sorted by source
ListDocuments(coll) ==
    LET present == SelectSeq(DocIds, LAMBDA d : WithSource(coll, d) # {})
    IN  [k \in 1..Len(present) |->
           [source |-> present[k],
            pages  |-> Cardinality({c.metadata.page : c \in WithSource(coll, present[k])}),
            chunks |-> Cardinality(WithSource(coll, present[k]))]]

\* the ids are looked up but the delete is issued without them
DeleteDocumentNoOp(coll, source) ==
    [coll |-> coll, count |-> Cardinality(IdsOf(WithSource(coll, source)))]

\* the delete is issued without the ids, which empties the collection
DeleteDocumentAll(coll, source) ==
    [coll |-> {}, count |-> Cardinality(IdsOf(WithSource(coll, source)))]

\* results = collection.get(where={"source": source}); delete(ids=results['ids'])
DeleteDocument(coll, source) ==
    LET ids == IdsOf(WithSource(coll, source))
    IN  IF ids # {}
        THEN [coll |-> {c \in coll : c.id \notin ids}, count |-> Cardinality(ids)]
        ELSE [coll |-> coll, count |-> 0]

NoOp == [op |-> "none"]

InitChunk ==
    /\ cfg = NoConfig
    /\ ck = IdleCk
    /\ collection = {}
    /\ last = NoOp
    /\ active_model = "None"
    /\ threads = NoThreads
    /\ uploadQueue = NoQueue

NextChunk == Construct \/ ChunkTextCall \/ ChunkLoop \/ ChunkReturn

\* the loop is sequential code: an iteration that can run does run
SpecChunk ==
    InitChunk /\ [][NextChunk]_vars /\ WF_vars(ChunkLoop) /\ WF_vars(ChunkReturn)

\* the chunk_size and overlap in effect are positive with overlap < chunk_size
ValidChunking == ck.chunk_size > 0 /\ ck.overlap > 0 /\ ck.overlap < ck.chunk_size

\* C2: chunk_text terminates for every text whenever the chunk_size and
\* overlap in effect (passed, or the instance defaults) are positive integers
\* with overlap < chunk_size: a call that has entered the loop returns.
C2_ChunkTextTerminates ==
    [](ck.pc = "loop" /\ ValidChunking => <>(ck.pc = "done"))

\* a call with valid parameters has gone round the loop at least twice and
\* returned
C2_Witness ==
    ck.pc = "done" /\ ValidChunking /\ Len(ck.chunks) >= 2 /\ ck.start >= Len(ck.text)

\* C3: a configuration with chunk_overlap >= chunk_size never becomes a
\* constructed VectorStore, so a chunk_text call on the instance defaults
\* never stands in the loop with a start offset that does not advance.
C3_InvalidConfigRejected ==
    /\ cfg.constructed => cfg.chunk_overlap < cfg.chunk_size
    /\ ck.pc = "loop" /\ ck.defaults
         => ChunkAdvance(ck.start, ck.chunk_size, ck.overlap) > ck.start

\* position q of the text lies in an occurrence of chunk i inside the window
\* chunk i was cut from
InChunk(q, i) ==
    LET c == ck.chunks[i]
    IN  \E lo \in (ck.starts[i] + 1)..Len(ck.text) :
          /\ lo + Len(c) - 1 <= MinOf(ck.starts[i] + ck.chunk_size, Len(ck.text))
          /\ SubSeq(ck.text, lo, lo + Len(c) - 1) = c
          /\ q \in lo..(lo + Len(c) - 1)

Covered(q) == \E i \in 1..Len(ck.chunks) : InChunk(q, i)

\* the positions of the text that text.strip() keeps
TrimmedPositions ==
    (LeadingSpace(ck.text) + 1)..(LeadingSpace(ck.text) + Len(Strip(ck.text)))

\* C10 as stated: every character of the trimmed text, whitespace inside it
\* included, appears in at least one returned chunk.
C10_EveryTrimmedCharInAChunk ==
    ck.pc = "done" /\ ValidChunking => \A q \in TrimmedPositions : Covered(q)

\* C10 amended: every non-whitespace character of the text appears in at
\* least one returned chunk (whitespace that falls on the edge of a window is
\* stripped from that chunk and may appear in none).
C10_EveryNonSpaceCharInAChunk ==
    ck.pc = "done" /\ ValidChunking
      => \A q \in 1..Len(ck.text) : ck.text[q] \notin Whitespace => Covered(q)

\* a returned call with overlapping windows over a text that has whitespace
\* between two words
C10_Witness ==
    /\ ck.pc = "done" /\ ValidChunking /\ Len(ck.chunks) >= 3
    /\ \E q \in TrimmedPositions : ck.text[q] \in Whitespace /\ ~Covered(q)
    /\ \E q \in TrimmedPositions : ck.text[q] \notin Whitespace /\ Covered(q)

\* C11: chunk_text returns only non-empty trimmed strings, and for a text
\* that is empty or all whitespace it returns the empty sequence.
C11_ChunksNonEmpty ==
    ck.pc = "done" =>
        /\ \A k \in 1..Len(ck.chunks) : ck.chunks[k] # <<>>
        /\ Strip(ck.text) = <<>> => ck.chunks = <<>>

\* C23: chunk_text works with what the caller asked for: the instance
\* default where an argument is None, and every integer passed explicitly,
\* 0 included, as the window size and in the step chunk_size - overlap.
C23_ExplicitArgumentsUsed ==
    ck.pc # "idle" =>
        /\ ck.chunk_size = ck.given.chunk_size
        /\ ck.overlap = ck.given.overlap
        /\ \A k \in 1..Len(ck.chunks) :
             ck.chunks[k] =
                 Strip(PySlice(ck.text, ck.starts[k], ck.starts[k] + ck.given.chunk_size))
        /\ \A k \in 1..(Len(ck.starts) - 1) :
             ck.starts[k + 1] - ck.starts[k] = ck.given.chunk_size - ck.given.overlap

RECURSIVE Reassemble(_, _)
\* the first chunk followed by every later chunk without its first `overlap`
\* characters
Reassemble(chunks, overlap) ==
    IF chunks = <<>> THEN <<>>
    ELSE IF Len(chunks) = 1 THEN chunks[1]
    ELSE Reassemble(SubSeq(chunks, 1, Len(chunks) - 1), overlap)
           \o PySlice(chunks[Len(chunks)], overlap, Len(chunks[Len(chunks)]))

\* the window chunk k was cut from, before trimming
RawWindow(k) == PySlice(ck.text, ck.starts[k], ck.starts[k] + ck.chunk_size)

\* no window begins or ends with whitespace
CleanEdges ==
    \A k \in 1..Len(ck.starts) :
        RawWindow(k) # <<>> =>
            /\ RawWindow(k)[1] \notin Whitespace
            /\ RawWindow(k)[Len(RawWindow(k))] \notin Whitespace

\* C24: with step = chunk_size - overlap > 0 a returned call has cut one
\* window at each offset 0, step, 2*step, ... below the length of the text;
\* each chunk is the trimmed text[i*step : i*step + chunk_size], at most
\* chunk_size long; and when no window begins or ends with whitespace the
\* first chunk followed by the later chunks without their first `overlap`
\* characters is the text.
C24_WindowsAndReassembly ==
    ck.pc = "done" /\ ck.chunk_size - ck.overlap > 0 =>
        LET step == ck.chunk_size - ck.overlap
            n    == Len(ck.chunks)
        IN  /\ Len(ck.starts) = n
            /\ \A k \in 1..n : ck.starts[k] = (k - 1) * step
            /\ n = Cardinality({i \in 0..Len(ck.text) : i * step < Len(ck.text)})
            /\ \A k \in 1..n :
                 /\ ck.chunks[k] =
                      Strip(SubSeq(ck.text, (k - 1) * step + 1,
                                   MinOf((k - 1) * step + ck.chunk_size, Len(ck.text))))
                 /\ Len(ck.chunks[k]) <= ck.chunk_size
            /\ CleanEdges => Reassemble(ck.chunks, ck.overlap) = ck.text

\* a call with overlapping windows over a text with a space inside returned
\* two chunks or more, the last shorter than chunk_size, that reassemble to
\* the text
C24_Witness ==
    /\ ck.pc = "done" /\ ck.overlap >= 1 /\ ck.chunk_size - ck.overlap >= 2
    /\ Len(ck.chunks) >= 2
    /\ Len(ck.chunks[Len(ck.chunks)]) < ck.chunk_size
    /\ \E q \in 1..Len(ck.text) : ck.text[q] \in Whitespace
    /\ CleanEdges
    /\ Reassemble(ck.chunks, ck.overlap) = ck.text

----------------------------------------------------------------------------
(* SpecStore: one VectorStore and the /documents routes                    *)

\* the instance configuration of the store specifications
StoreConfig == VectorStoreInit(2, 1)

PageNums == {1, 2}
PageData(texts) == [text : texts, page : PageNums]
\* page lists in reading order; a page number may repeat
PageLists(texts) ==
    {file_data \in UNION {[1..n -> PageData(texts)] : n \in 0..MaxPages} :
       \A j, k \in 1..Len(file_data) : j < k => file_data[j].page <= file_data[k].page}

\* the non-empty chunks the page texts produce
ChunkTexts(texts) ==
    {c \in UNION {{ChunkText(t, StoreConfig)[k] : k \in 1..Len(ChunkText(t, StoreConfig))}
                    : t \in texts} : c # <<>>}

\* what the embedding service answers, per chunk text, during one call: a
\* vector for every text but at most one, for which it answers an empty
\* vector; or it raises on every call
EmbedBehaviours(texts) ==
    {f \in [ChunkTexts(texts) -> {"vector", "empty"}] :
       Cardinality({t \in ChunkTexts(texts) : f[t] = "empty"}) <= 1}
      \cup {[t \in ChunkTexts(texts) |-> "error"]}

Sources == {"a.txt", "b.pdf"}

\* the uploads of SpecStore: a.txt with any page list over two page texts,
\* b.pdf with one page
StorePageTexts == {<<"a", "b">>, <<"a", " ">>}
StoreUploads ==
    ({"a.txt"} \X PageLists(StorePageTexts))
      \cup {<<"b.pdf", <<[text |-> <<"a", "b">>, page |-> 1]>>>>}
StoreEmbedBehaviours == EmbedBehaviours(StorePageTexts)

\* PrepareBatch for every upload <<document_id, file_data>> and every behaviour
\* of the embedding service (it does not read the collection, so it is
\* evaluated once per input), on the store constructed with StoreConfig
Prepared(uploads, behaviours) ==
    {[document_id |-> u[1],
      prepared    |-> PrepareBatch(u[2], u[1], StoreConfig, embed)] :
        u \in uploads, embed \in behaviours}
StorePrepared == Prepared(StoreUploads, StoreEmbedBehaviours)

\* vector_store.ingest_document(file_data, document_id, metadata={}), for one
\* of the prepared inputs.
\* Ghost fields of last: before (chunks of this source before the call),
\* fresh (none), expected and modes (see PrepareBatch), repeat (the batch is
\* exactly the chunks already stored for the source).
Ingest(inputs) ==
    /\ cfg = StoreConfig
    /\ \E inp \in inputs :
         \E old \in {WithSource(collection, inp.document_id)},
            r \in {StoreBatch(collection, inp.prepared)} :
             /\ collection' = r.coll
             /\ last' = [op       |-> "ingest",
                         source   |-> inp.document_id,
                         raised   |-> r.raised,
                         count    |-> r.count,
                         before   |-> Cardinality(old),
                         fresh    |-> old = {},
                         expected |-> inp.prepared.expected,
                         modes    |-> inp.prepared.modes,
                         repeat   |-> /\ inp.prepared.batch # <<>>
                                      /\ {inp.prepared.batch[k].id :
                                            k \in 1..Len(inp.prepared.batch)} = IdsOf(old)]
    /\ UNCHANGED <<cfg, ck, active_model, threads, uploadQueue>>

\* DELETE /documents/<source>.  Ghost fields: ingested (the count the
\* ingest_document call just before returned for this source, -1 if the
\* operation before was something else), fresh (that call found no chunk of it)
DeleteRoute ==
    /\ \E source \in Sources \cup {"missing.txt"} :
         \E r \in {DeleteDocument(collection, source)},
            justIngested \in {last.op = "ingest" /\ last.source = source /\ ~last.raised} :
             /\ collection' = r.coll
             /\ last' = [op       |-> "delete",
                         source   |-> source,
                         status   |-> 200,
                         success  |-> TRUE,
                         count    |-> r.count,
                         ingested |-> IF justIngested THEN last.count ELSE -1,
                         fresh    |-> IF justIngested THEN last.fresh ELSE FALSE]
    /\ UNCHANGED <<cfg, ck, active_model, threads, uploadQueue>>

\* GET /documents
ListRoute ==
    /\ last' = [op |-> "list", status |-> 200, documents |-> ListDocuments(collection)]
    /\ UNCHANGED <<cfg, ck, collection, active_model, threads, uploadQueue>>

InitStore ==
    /\ cfg = StoreConfig
    /\ ck = IdleCk
    /\ collection = {}
    /\ last = NoOp
    /\ active_model = "None"
    /\ threads = NoThreads
    /\ uploadQueue = NoQueue

NextStore == Ingest(StorePrepared) \/ DeleteRoute \/ ListRoute

SpecStore == InitStore /\ [][NextStore]_vars

----------------------------------------------------------------------------
(* Properties of ingest_document, delete_document and list_documents       *)

\* the chunk count list_documents reports for a source, 0 when it has no entry
ListedChunks(coll, source) ==
    LET docs == ListDocuments(coll)
        hits == {k \in 1..Len(docs) : docs[k].source = source}
    IN  IF hits = {} THEN 0 ELSE docs[CHOOSE k \in hits : TRUE].chunks

\* C4: whenever ingest_document returns, the value returned is the number of
\* chunks, over all pages, that are non-empty after trimming and got a
\* non-empty vector; and if the store held no chunk of that source before,
\* exactly that many chunks are stored under the source and list_documents
\* reports that count.
C4_IngestReturnsStoredCount ==
    last.op = "ingest" /\ ~last.raised =>
        /\ last.count = last.expected
        /\ last.fresh =>
             /\ Cardinality(WithSource(collection, last.source)) = last.count
             /\ ListedChunks(collection, last.source) = last.count

\* an ingestion into a store without chunks of the source returned 2 or more
\* after skipping a chunk: the chunk with index 1 of page 1 is stored as
\* chunk_index 0
C4_Witness ==
    /\ last.op = "ingest" /\ ~last.raised /\ last.fresh /\ last.count >= 2
    /\ \E c \in WithSource(collection, last.source) :
         c.id = ChunkId(last.source, 1, 1) /\ c.metadata.chunk_index = 0

\* C5 as stated: a delete_document that follows an ingest_document of the
\* same identifier returns the count that ingestion returned, and the source
\* is no longer listed.
C5_DeleteReturnsIngestedCount ==
    last.op = "delete" /\ last.ingested >= 0 =>
        /\ last.count = last.ingested
        /\ ListedChunks(collection, last.source) = 0

\* C5, for an ingestion into a store that held no chunk of the identifier:
\* the delete_document that follows returns the count that ingestion
\* returned, and the source is no longer stored or listed.
C5_DeleteAfterFreshIngest ==
    last.op = "delete" /\ last.ingested >= 0 /\ last.fresh =>
        /\ last.count = last.ingested
        /\ WithSource(collection, last.source) = {}
        /\ ListedChunks(collection, last.source) = 0

\* a document of 2 or more chunks was ingested into a store without it and
\* deleted at once, while another document stays stored
C5_Witness ==
    /\ last.op = "delete" /\ last.fresh /\ last.ingested >= 2
    /\ last.count = last.ingested
    /\ collection # {}

\* C6: a delete of source s removes exactly the chunks whose source is s and
\* returns their number; every other chunk stays as it is; with no chunk of
\* s the store is unchanged and 0 is returned; the route answers 200 with
\* success true.
C6_DeleteRemovesExactlySource ==
    [][last'.op = "delete" =>
         /\ collection' = {c \in collection : c.metadata.source # last'.source}
         /\ last'.count = Cardinality(WithSource(collection, last'.source))
         /\ (WithSource(collection, last'.source) = {} =>
               collection' = collection /\ last'.count = 0)
         /\ last'.status = 200 /\ last'.success]_vars

\* a delete removed chunks of one source and the chunks of another remain
C6_Witness ==
    /\ last.op = "delete" /\ last.count > 0
    /\ collection # {}
    /\ WithSource(collection, last.source) = {}

Rank(source) == CHOOSE k \in 1..Len(DocIds) : DocIds[k] = source

RECURSIVE SumChunks(_)
SumChunks(docs) == IF docs = <<>> THEN 0 ELSE Head(docs).chunks + SumChunks(Tail(docs))

\* C18: list_documents returns exactly one entry per source present among
\* the stored chunks, with its number of distinct pages and its number of
\* chunks, in ascending order of source; the chunk counts sum to the size of
\* the store and the empty store gives the empty list.
C18_ListDocumentsExact ==
    last.op = "list" =>
        LET docs == last.documents
        IN  /\ \A c \in collection :
                 Cardinality({k \in 1..Len(docs) : docs[k].source = c.metadata.source}) = 1
            /\ \A k \in 1..Len(docs) :
                 LET of == {c \in collection : c.metadata.source = docs[k].source}
                 IN  /\ of # {}
                     /\ docs[k].chunks = Cardinality(of)
                     /\ docs[k].pages = Cardinality({c.metadata.page : c \in of})
            /\ \A j, k \in 1..Len(docs) : j < k => Rank(docs[j].source) < Rank(docs[k].source)
            /\ SumChunks(docs) = Cardinality(collection)
            /\ collection = {} => docs = <<>>

\* a listing of two documents, the first with more chunks than pages
C18_Witness ==
    /\ last.op = "list" /\ Len(last.documents) = 2
    /\ last.documents[1].source = "a.txt" /\ last.documents[2].source = "b.pdf"
    /\ last.documents[1].pages = 2
    /\ last.documents[1].chunks > last.documents[1].pages

----------------------------------------------------------------------------
(* /chat                                                                   *)

\* app.config['TOP_K_RESULTS'] and app.config['RELEVANCE_THRESHOLD'] (0.3, in
\* hundredths)
TOP_K_RESULTS == 3
RELEVANCE_THRESHOLD == 30

\* the comparison of the relevance filter written as a strict one
WithinThresholdStrict(distance, best_distance, threshold) ==
    distance < best_distance + threshold

\* r.get('distance', 0) <= best_distance + threshold
WithinThreshold(distance, best_distance, threshold) ==
    distance <= best_distance + threshold

\* lines 166-171: keep the results within threshold of the first result
RelevanceFilter(context_results, threshold) ==
    IF context_results # <<>>
    THEN SelectSeq(context_results,
                   LAMBDA r : WithinThreshold(r.distance, context_results[1].distance,
                                              threshold))
    ELSE context_results

\* the named candidates, in the order they are tried
ModelCandidates ==
    <<"gemini-1.5-flash", "gemini-1.5-flash-latest", "gemini-1.5-flash-001",
      "gemini-1.0-pro", "gemini-pro">>

\* models genai.list_models() may list: name, whether generateContent is among
\* the supported methods, whether 'flash' is in the name
EmbeddingModel == [name |-> "models/text-embedding-004", generate |-> FALSE, flash |-> FALSE]
ProModel       == [name |-> "models/gemini-2.5-pro", generate |-> TRUE, flash |-> FALSE]
FlashModel     == [name |-> "models/gemini-2.5-flash", generate |-> TRUE, flash |-> TRUE]
Listings == {<<>>, <<EmbeddingModel>>, <<ProModel, FlashModel>>, <<EmbeddingModel, ProModel>>}

\* what the generation service does during one /chat request:
\*   named     index of the first named candidate whose generate_content
\*             returns (0: every one raises)
\*   list_models  whether list_models() answers or raises (with or without
\*             "429" in the message)
\*   listing   the models it lists
\*   fallback  generate_content on the discovered flash model
\*   first     generate_content on the first listed model
\*   reply     the response: with text, blocked by the safety filter (reading
\*             .text raises ValueError), or without candidates
GenOutcomes ==
    [named : 1..Len(ModelCandidates), list_models : {"ok"}, listing : {<<>>},
     fallback : {"ok"}, first : {"ok"}, reply : {"text", "blocked", "empty"}]
    \cup [named : {0}, list_models : {"error", "error429"}, listing : {<<>>},
          fallback : {"ok"}, first : {"ok"}, reply : {"text"}]
    \cup [named : {0}, list_models : {"ok"}, listing : {<<ProModel, FlashModel>>},
          fallback : {"ok", "error", "error429"}, first : {"ok"}, reply : {"text"}]
    \cup [named : {0}, list_models : {"ok"}, listing : Listings \ {<<ProModel, FlashModel>>},
          fallback : {"ok"}, first : {"ok", "error"}, reply : {"text"}]

\* the first listed model that supports generateContent and has 'flash' in
\* its name, as a set of at most one index
FirstFlash(listing) ==
    LET flash == {k \in 1..Len(listing) : listing[k].generate /\ listing[k].flash}
    IN  {k \in flash : \A j \in flash : k <= j}

\* step 3 of chat(): the named candidates, then the listed flash model, then
\* the first listed model.  status 200 carries a response; used is the model
\* that produced it.
Generate(gen) ==
    LET flash == FirstFlash(gen.listing)
        m     == CHOOSE k \in flash : TRUE
    IN  IF gen.named > 0
        THEN [status |-> 200, used |-> ModelCandidates[gen.named]]
        ELSE IF gen.list_models = "error"    THEN [status |-> 500, used |-> "None"]
        ELSE IF gen.list_models = "error429" THEN [status |-> 429, used |-> "None"]
        ELSE IF flash # {}
        THEN CASE gen.fallback = "ok"       -> [status |-> 200, used |-> gen.listing[m].name]
               [] gen.fallback = "error"    -> [status |-> 500, used |-> "None"]
               [] gen.fallback = "error429" -> [status |-> 429, used |-> "None"]
        ELSE IF gen.listing = <<>> \/ gen.first = "error"
        THEN [status |-> 503, used |-> "None"]
        ELSE [status |-> 200, used |-> gen.listing[1].name]

\* the text is read from the response without a guard
SafeTextUnguarded(reply) == IF reply = "text" THEN "text" ELSE "none"

\* step 4 of chat(): the text of the answer
SafeText(reply) ==
    CASE reply = "text"    -> "text"
      [] reply = "empty"   -> "silent"
      [] reply = "blocked" -> "redacted"

\* the queries of the model, texts like the chunks
Queries == {<<"q", "0">>, <<"q", "1">>}
SourceFilters ==
    {None, Some(<<>>), Some(<<"a.txt">>), Some(<<"b.pdf">>), Some(<<"a.txt", "b.pdf">>),
     Some(<<"missing.txt">>)}

\* search() when the query embedding raises is taken for an empty result
SearchOutcomeSwallowing(coll, query, n_results, filter_sources, embedded) ==
    [raised  |-> FALSE,
     queried |-> embedded # "error",
     modes   |-> <<EmbedQuery(query).task_type>>,
     matches |-> IF embedded = "error" THEN {<<>>}
                 ELSE Search(coll, query, n_results, filter_sources)]

\* search(query, n_results, filter_sources): genai.embed_content is called
\* once; if it raises, search raises before collection.query is issued.
\* modes (ghost): the task type of the embedding call.
SearchOutcome(coll, query, n_results, filter_sources, embedded) ==
    IF embedded = "error"
    THEN [raised |-> TRUE, queried |-> FALSE,
          modes |-> <<EmbedQuery(query).task_type>>, matches |-> {<<>>}]
    ELSE [raised |-> FALSE, queried |-> TRUE,
          modes |-> <<EmbedQuery(query).task_type>>,
          matches |-> Search(coll, query, n_results, filter_sources)]

\* the models generate_content is called on, in call order
Tried(gen) ==
    LET flash == FirstFlash(gen.listing)
        m     == CHOOSE k \in flash : TRUE
    IN  IF gen.named > 0 THEN SubSeq(ModelCandidates, 1, gen.named)
        ELSE IF gen.list_models # "ok" THEN ModelCandidates
        ELSE IF flash # {} THEN Append(ModelCandidates, gen.listing[m].name)
        ELSE IF gen.listing = <<>> THEN ModelCandidates
        ELSE Append(ModelCandidates, gen.listing[1].name)

\* an empty context is replaced by a placeholder text
ContextTextOrPlaceholder(context_results) ==
    IF context_results = <<>> THEN <<"-">>
    ELSE context_results[1].text

RECURSIVE ContextText(_)
\* "\n\n".join([r['text'] for r in context_results])
ContextText(context_results) ==
    IF context_results = <<>> THEN <<>>
    ELSE IF Len(context_results) = 1 THEN context_results[1].text
    ELSE context_results[1].text \o <<"\n", "\n">> \o ContextText(Tail(context_results))

\* full_prompt: the system prompt, the context text and the query
FullPrompt(context_text, query) ==
    [instructions |-> "SYSTEM_PROMPT", context |-> context_text, question |-> query]

\* the generation outcomes tried with every query and filter: the first
\* named candidate answers with text, or no model can be found at all
SearchGens ==
    {gen \in GenOutcomes :
       /\ gen.reply = "text" /\ gen.fallback = "ok" /\ gen.first = "ok"
       /\ gen.named = 1 \/ Generate(gen).status = 503}

\* the generation outcomes of the model for a /chat request: every one for
\* the query "q0" without a filter, those of SearchGens for the others
GensFor(query, sources) ==
    IF query = <<"q", "0">> /\ sources = None THEN GenOutcomes ELSE SearchGens

\* the metadata of the results, last one first
SourcesReversed(context_results) ==
    [k \in 1..Len(context_results) |->
        context_results[Len(context_results) + 1 - k].metadata]

\* line 255: [r['metadata'] for r in context_results]
SourcesOf(context_results) ==
    [k \in 1..Len(context_results) |-> context_results[k].metadata]

\* the response of /chat and its ghost fields, from the context kept, the
\* outcome g of the model selection and the context text
ChatRecord(query, filter_sources, embedded, modes, context_results, gen, kept, g, text) ==
    [op       |-> "chat",
     query    |-> query,
     missing  |-> FALSE,
     filter   |-> filter_sources,
     embedded |-> embedded,
     status   |-> g.status,
     kind     |-> IF g.status = 200 THEN "success" ELSE "error",
     echo     |-> IF g.status = 200 THEN SafeText(gen.reply) ELSE "none",
     sources  |-> IF g.status = 200 THEN SourcesOf(kept) ELSE <<>>,
     searched |-> TRUE,
     queried  |-> TRUE,
     embeds   |-> 1,
     modes    |-> modes,
     results  |-> context_results,
     context  |-> kept,
     context_text |-> text,
     prompt   |-> FullPrompt(text, query),
     tried    |-> Tried(gen),
     gen      |-> gen,
     used     |-> g.used]

\* what /chat answers once the search returned context_results and the
\* generation service behaves as gen: steps 1 to 4 of chat()
ChatAnswer(query, filter_sources, embedded, modes, context_results, gen, kept) ==
    ChatRecord(query, filter_sources, embedded, modes, context_results, gen, kept,
               Generate(gen), ContextText(kept))

\* a direct call of vector_store.search(query, n_results, filter_sources); the
\* query embedding may raise
SearchCall ==
    /\ \E query \in Queries, filter_sources \in SourceFilters,
          embedded \in {"vector", "error"} :
         LET so == SearchOutcome(collection, query, TOP_K_RESULTS, filter_sources, embedded)
         IN  \E matches \in so.matches :
               last' = [op       |-> "search",
                        query    |-> query,
                        filter   |-> filter_sources,
                        embedded |-> embedded,
                        raised   |-> so.raised,
                        modes    |-> so.modes,
                        results  |-> matches]
    /\ UNCHANGED <<cfg, ck, collection, active_model, threads, uploadQueue>>

\* the fields of a /chat response that did not reach the search or the model
NoAnswer ==
    [op |-> "chat", query |-> <<>>, missing |-> FALSE, filter |-> None, embedded |-> "none",
     status |-> 400, kind |-> "error", echo |-> "none", sources |-> <<>>,
     searched |-> FALSE, queried |-> FALSE, embeds |-> 0, modes |-> <<>>,
     results |-> <<>>,
     context |-> <<>>, context_text |-> <<>>, prompt |-> FullPrompt(<<>>, <<>>),
     tried |-> <<>>,
     gen |-> [named |-> 0, list_models |-> "ok", listing |-> <<>>, fallback |-> "ok",
              first |-> "ok", reply |-> "none"],
     used |-> "None"]

\* POST /chat with a JSON body {query, sources}.  Ghost fields of last:
\* missing (the body has no query), embedded (what the embedding service did
\* with the query), embeds (embedding calls), searched (search returned),
\* queried (collection.query was issued), results (what search returned),
\* modes (the task type of each embedding call),
\* context (the results kept for the prompt), context_text, prompt, gen (what
\* the generation service does), tried (the models generate_content was called
\* on), used (the model that answered).
\* A request without a query is answered 400 before anything else happens.
ChatBadRequest ==
    /\ \E filter_sources \in SourceFilters, missing \in BOOLEAN :
         last' = [NoAnswer EXCEPT !.filter = filter_sources, !.missing = missing]
    /\ UNCHANGED <<cfg, ck, collection, active_model, threads, uploadQueue>>

\* the query embedding raises inside search: nothing in chat() catches it
ChatSearchRaises ==
    /\ \E query \in Queries, filter_sources \in SourceFilters :
         LET so == SearchOutcome(collection, query, TOP_K_RESULTS, filter_sources, "error")
         IN  /\ so.raised
             /\ last' = [NoAnswer EXCEPT !.query = query, !.filter = filter_sources,
                                         !.embedded = "error", !.embeds = 1,
                                         !.modes = so.modes,
                                         !.status = 500, !.kind = "unhandled"]
    /\ UNCHANGED <<cfg, ck, collection, active_model, threads, uploadQueue>>

\* ACTIVE_MODEL is assigned at the end of every request, answered or not
ActiveModelAlwaysSet(active, answer) == answer.used

\* lines 207-209, 223-224, 234-235: app.config['ACTIVE_MODEL'] is assigned
\* right after the generate_content call that returned the response, and
\* nowhere else
ActiveModelAfter(active, answer) ==
    IF answer.status = 200 THEN answer.used ELSE active

Chat ==
    /\ \E query \in Queries, filter_sources \in SourceFilters,
          embedded \in {"vector", "error"} :
         \E so \in {SearchOutcome(collection, query, TOP_K_RESULTS, filter_sources,
                                  embedded)} :
           /\ ~so.raised
           /\ \E context_results \in so.matches, gen \in GensFor(query, filter_sources) :
              /\ last' = ChatAnswer(query, filter_sources, embedded, so.modes,
                                    context_results, gen,
                                    RelevanceFilter(context_results, RELEVANCE_THRESHOLD))
              /\ active_model' = ActiveModelAfter(active_model, last')
    /\ UNCHANGED <<cfg, ck, collection, threads, uploadQueue>>

----------------------------------------------------------------------------
(* /upload                                                                 *)

\* str.lower() on the filenames of the model
Lower(filename) == IF filename = "B.PDF" THEN "b.pdf" ELSE filename

\* filename.lower().endswith(suffix) on the filenames of the model
LowerEndsWith(filename, suffix) ==
    \/ suffix = ".pdf" /\ Lower(filename) = "b.pdf"
    \/ suffix = ".txt" /\ Lower(filename) = "a.txt"

\* an upload request: whether it has a 'file' part, the filename, the text
\* file.read().decode('utf-8') gives, the text extract_text() gives for each
\* page PdfReader finds, and whether reading the file raises instead
\* (decode() on bytes that are not UTF-8, PdfReader on a file that is no PDF)
NoFile ==
    [has_file |-> FALSE, filename |-> "", text |-> <<>>, pages |-> <<>>,
     unreadable |-> FALSE]
UploadRequests ==
    {NoFile, [NoFile EXCEPT !.has_file = TRUE]}
      \cup [has_file : {TRUE}, filename : {"c.png"}, text : {<<"a", "b">>}, pages : {<<>>},
            unreadable : {FALSE}]
      \cup [has_file : {TRUE}, filename : {"a.txt"},
            text : {<<>>, <<" ">>, <<"a", "b">>}, pages : {<<>>}, unreadable : {FALSE}]
      \cup [has_file : {TRUE}, filename : {"b.pdf"}, text : {<<>>},
            pages : {<<>>, << <<" ">> >>, << <<"a", " ">>, <<"a", "b">> >>},
            unreadable : {FALSE}]
      \cup [has_file : {TRUE}, filename : {"B.PDF"}, text : {<<>>},
            pages : {<< <<" ">>, <<"a", "b">> >>}, unreadable : {FALSE}]
      \cup [has_file : {TRUE}, filename : {"a.txt", "b.pdf"}, text : {<<>>},
            pages : {<<>>}, unreadable : {TRUE}]

\* the request is answered 400 whatever else it holds
UploadAcceptsAll(request) == FALSE

\* 'file' not in request.files, or file.filename == ''
UploadRejects(request) == ~request.has_file \/ request.filename = ""

Progress(progress, stage) == [progress |-> progress, stage |-> stage]
ErrorEvent(message) == [error |-> message]
Complete(filename, num_chunks, total_pages) ==
    [progress |-> 100, stage |-> "complete", filename |-> filename,
     chunks_processed |-> num_chunks, pages |-> total_pages]

\* lines 81-91: the pages with text, numbered from 1 by position, and one
\* progress event per page: 20 + int((i + 1) / total_pages * 30)
PdfFileData(pages) ==
    SelectSeq([k \in 1..Len(pages) |-> [text |-> pages[k], page |-> k]],
              LAMBDA page_data : Strip(page_data.text) # <<>>)
PdfEvents(pages) ==
    <<Progress(20, "parsing")>>
      \o [k \in 1..Len(pages) |-> Progress(20 + (k * 30) \div Len(pages), "parsing")]

\* lines 74-105 of generate_progress: reading the file.  supported: the
\* filename ends in .pdf or .txt; raised: PdfReader or decode raised, after
\* the events yielded before it; file_data: the pages handed to ingestion
Extract(request) ==
    IF LowerEndsWith(request.filename, ".pdf")
    THEN IF request.unreadable
         THEN [supported |-> TRUE, raised |-> TRUE, file_data |-> <<>>,
               events |-> <<Progress(10, "reading"), Progress(20, "parsing")>>]
         ELSE [supported |-> TRUE, raised |-> FALSE,
               file_data |-> PdfFileData(request.pages),
               events |-> <<Progress(10, "reading")>> \o PdfEvents(request.pages)]
    ELSE IF LowerEndsWith(request.filename, ".txt")
    THEN IF request.unreadable
         THEN [supported |-> TRUE, raised |-> TRUE, file_data |-> <<>>,
               events |-> <<Progress(10, "reading"), Progress(30, "parsing")>>]
         ELSE [supported |-> TRUE, raised |-> FALSE,
               file_data |-> <<[text |-> request.text, page |-> 1]>>,
               events |-> <<Progress(10, "reading"), Progress(30, "parsing"),
                            Progress(50, "parsing")>>]
    ELSE [supported |-> FALSE, raised |-> FALSE, file_data |-> <<>>,
          events |-> <<Progress(10, "reading"), ErrorEvent("Unsupported file type")>>]

\* the embedding service during one upload: it answers a vector for every
\* chunk, or raises for the chunk "b" (after it has answered for "ab")
UploadEmbedBehaviours ==
    {f \in [ChunkTexts(StorePageTexts) -> {"vector", "error"}] :
       \A t \in DOMAIN f : f[t] = "error" => t = <<"b">>}

\* /upload up to the batch add, for every request and every behaviour of the
\* embedding service (evaluated once per input): rejected (answered 400),
\* extraction, whether ingest_document is called, what it prepares and the
\* embedding calls it makes
UploadsFor(requests, behaviours) ==
    {LET x      == Extract(request)
         called == /\ ~UploadRejects(request) /\ x.supported /\ ~x.raised
                   /\ x.file_data # <<>>
     IN  [request  |-> request,
          rejected |-> UploadRejects(request),
          extract  |-> x,
          called   |-> called,
          prepared |-> IF called
                       THEN PrepareBatch(x.file_data, request.filename, StoreConfig, embed)
                       ELSE [raised |-> FALSE, batch |-> <<>>, modes |-> <<>>,
                             expected |-> 0],
          embeds   |-> IF called THEN EmbedCalls(x.file_data, StoreConfig, embed) ELSE 0] :
       request \in requests, embed \in behaviours}
UploadInputs == UploadsFor(UploadRequests, UploadEmbedBehaviours)

\* the stream goes on after the error event of a failed ingestion
UploadEventsPastError(u, r) ==
    u.extract.events
      \o (IF r.raised THEN <<Progress(60, "vectorizing"), ErrorEvent("exception")>>
          ELSE <<Progress(60, "vectorizing")>>)
      \o <<Progress(90, "finalizing"),
           Complete(u.request.filename, r.count, Len(u.extract.file_data))>>

\* the event stream of generate_progress, given what ingest_document did; an
\* exception anywhere in the generator becomes an error event, its last
UploadEvents(u, r) ==
    IF ~u.extract.supported THEN u.extract.events
    ELSE IF u.extract.raised THEN u.extract.events \o <<ErrorEvent("exception")>>
    ELSE IF u.extract.file_data = <<>>
    THEN u.extract.events \o <<ErrorEvent("File appears empty")>>
    ELSE IF r.raised
    THEN u.extract.events \o <<Progress(60, "vectorizing"), ErrorEvent("exception")>>
    ELSE u.extract.events
           \o <<Progress(60, "vectorizing"), Progress(90, "finalizing"),
                Complete(u.request.filename, r.count, Len(u.extract.file_data))>>

\* POST /upload.  Ghost fields of last: extracted (the file was read), called
\* (ingest_document was called), embeds (embedding calls made), modes (their
\* task types), raised (ingest_document raised), count (what it returned).
Upload ==
    /\ cfg = StoreConfig
    /\ \E u \in UploadInputs :
         \E r \in {IF u.called THEN StoreBatch(collection, u.prepared)
                   ELSE [raised |-> FALSE, coll |-> collection, count |-> 0]} :
             /\ collection' = r.coll
             /\ last' = [op        |-> "upload",
                         request   |-> u.request,
                         status    |-> IF u.rejected THEN 400 ELSE 200,
                         events    |-> IF u.rejected THEN <<>> ELSE UploadEvents(u, r),
                         extracted |-> ~u.rejected,
                         called    |-> u.called,
                         embeds    |-> u.embeds,
                         modes     |-> u.prepared.modes,
                         raised    |-> r.raised,
                         count     |-> r.count]
    /\ UNCHANGED <<cfg, ck, active_model, threads, uploadQueue>>

\* the uploads of Spec: two one- and two-page documents whose chunks lie at
\* distances 10, 40 and 50 from the query "q0"; the embedding service answers
ChatUploads ==
    {<<"a.txt", <<[text |-> <<"a", "b">>, page |-> 1]>>>>,
     <<"b.pdf", <<[text |-> <<"a", " ">>, page |-> 1], [text |-> <<"a", "b">>, page |-> 2]>>>>}
ChatEmbedBehaviours ==
    {f \in EmbedBehaviours(StorePageTexts) : \A t \in DOMAIN f : f[t] = "vector"}
ChatPrepared == Prepared(ChatUploads, ChatEmbedBehaviours)

Init == InitStore

Next ==
    \/ Ingest(ChatPrepared)
    \/ Upload
    \/ DeleteRoute
    \/ SearchCall
    \/ ChatBadRequest
    \/ ChatSearchRaises
    \/ Chat

Spec == Init /\ [][Next]_vars

----------------------------------------------------------------------------
(* Properties of search and /chat                                          *)

\* C1: when search returned a non-empty list whose first result has distance
\* d, the context kept for the prompt is exactly the results with distance
\* <= d + RELEVANCE_THRESHOLD, in the order returned.
C1_RelevanceFilterExact ==
    last.op = "chat" /\ last.searched /\ last.results # <<>> =>
        LET d == last.results[1].distance
        IN  /\ last.context =
                 SelectSeq(last.results, LAMBDA r : r.distance <= d + RELEVANCE_THRESHOLD)
            /\ \A k \in 1..Len(last.results) :
                 last.results[k].distance > d + RELEVANCE_THRESHOLD
                     <=> last.results[k] \notin Elems(last.context)

\* a chat whose search returned a result exactly at the cutoff, which is
\* kept, and one above it, which is dropped
C1_Witness ==
    /\ last.op = "chat" /\ last.searched /\ Len(last.results) = 3
    /\ \E k \in 1..Len(last.results) :
         /\ last.results[k].distance = last.results[1].distance + RELEVANCE_THRESHOLD
         /\ last.results[k] \in Elems(last.context)
    /\ \E k \in 1..Len(last.results) :
         /\ last.results[k].distance > last.results[1].distance + RELEVANCE_THRESHOLD
         /\ last.results[k] \notin Elems(last.context)

\* C9: when a list of sources is given to search (directly or by /chat),
\* whatever its length, every match returned has its source in the list and
\* at most TOP_K_RESULTS matches are returned.
C9_MatchesWithinFilter ==
    last.op \in {"search", "chat"} /\ last.filter # None =>
        /\ \A k \in 1..Len(last.results) :
             last.results[k].metadata.source \in Elems(last.filter[1])
        /\ Len(last.results) <= TOP_K_RESULTS

----------------------------------------------------------------------------
(* Properties of /upload and of the failure paths of /chat                 *)

IsError(event) == "error" \in DOMAIN event
IsComplete(event) == "stage" \in DOMAIN event /\ event.stage = "complete"
HasComplete(events) == \E k \in 1..Len(events) : IsComplete(events[k])
EndsInError(events) == events # <<>> /\ IsError(events[Len(events)])

\* the filename ends in neither .pdf nor .txt, or no text was extracted: the
\* .txt content is empty after trimming, or no PDF page holds text
Unusable(request) ==
    \/ ~LowerEndsWith(request.filename, ".pdf") /\ ~LowerEndsWith(request.filename, ".txt")
    \/ LowerEndsWith(request.filename, ".txt") /\ Strip(request.text) = <<>>
    \/ /\ LowerEndsWith(request.filename, ".pdf")
       /\ \A k \in 1..Len(request.pages) : Strip(request.pages[k]) = <<>>

\* C12: an upload with an unsupported filename or without extracted text
\* ends in an error event and is never reported complete; no embedding call
\* is made and nothing is stored.
C12_UnusableUploadRejected ==
    last.op = "upload" /\ last.status = 200 /\ Unusable(last.request) =>
        /\ EndsInError(last.events)
        /\ ~HasComplete(last.events)
        /\ last.embeds = 0
        /\ last.count = 0

IsTerminal(event) == IsError(event) \/ IsComplete(event)

\* C22: in the stream of an upload the progress values never decrease and
\* lie in 0..100; the last event, and no other, is terminal: the 'complete'
\* event with progress 100, or an error event; a 'complete' event is there
\* only when ingest_document was called and returned, and its
\* chunks_processed is the value returned.
C22_UploadStreamOrdered ==
    last.op = "upload" /\ last.status = 200 =>
        LET events   == last.events
            progress == SelectSeq(events, LAMBDA e : ~IsError(e))
        IN  /\ \A k \in 1..Len(progress) : progress[k].progress \in 0..100
            /\ \A j, k \in 1..Len(progress) :
                 j < k => progress[j].progress <= progress[k].progress
            /\ events # <<>>
            /\ \A k \in 1..Len(events) : IsTerminal(events[k]) <=> k = Len(events)
            /\ \A k \in 1..Len(events) :
                 IsComplete(events[k]) =>
                     /\ events[k].progress = 100
                     /\ last.called /\ ~last.raised
                     /\ events[k].chunks_processed = last.count

\* a PDF of two pages, the first without text, was ingested: one progress
\* event per page, and 'complete' carries the number of chunks stored
C22_Witness ==
    /\ last.op = "upload" /\ last.request.filename = "B.PDF"
    /\ Len(last.events) = 7
    /\ IsComplete(last.events[7])
    /\ last.events[7].chunks_processed = last.count /\ last.count > 0
    /\ last.events[3].progress = 35 /\ last.events[4].progress = 50

\* C13: when the embedding service raises during an ingestion, the store
\* stays exactly as it was, every chunk was embedded at most once, and the
\* /upload stream ends with an error event and holds no 'complete' event.
C13_EmbeddingFailureStoresNothing ==
    [][/\ last'.op = "upload" /\ last'.raised =>
             /\ collection' = collection
             /\ EndsInError(last'.events)
             /\ ~HasComplete(last'.events)
             /\ last'.embeds <= Len(Embedded(Extract(last'.request).file_data, StoreConfig))
       /\ last'.op = "ingest" /\ last'.raised =>
             collection' = collection /\ last'.count = 0]_vars

\* an upload whose second embedding call raised, after the first chunk had
\* been embedded; no chunk of the file is stored
C13_Witness ==
    /\ last.op = "upload" /\ last.raised /\ last.embeds = 2
    /\ EndsInError(last.events)
    /\ WithSource(collection, last.request.filename) = {}

\* C14: when embedding the query raises, search raises and /chat fails as a
\* whole: one embedding call, no collection.query, no generation call, no
\* answer and no sources.
C14_QueryEmbeddingFailureIsFatal ==
    /\ last.op = "chat" /\ last.embedded = "error" =>
         /\ last.kind = "unhandled" /\ last.status >= 500
         /\ ~last.searched /\ ~last.queried
         /\ last.embeds = 1
         /\ last.tried = <<>>
         /\ last.echo = "none" /\ last.sources = <<>>
    /\ last.op = "search" /\ last.embedded = "error" =>
         last.raised /\ last.results = <<>>

\* a chat on a store with chunks failed because the query embedding raised
C14_Witness ==
    /\ last.op = "chat" /\ last.embedded = "error" /\ last.kind = "unhandled"
    /\ collection # {}

\* C15: the named candidates are tried in order up to the first that
\* answers; only when all of them fail the listed flash model is tried, and
\* when that gives no response the first listed model; an error is answered
\* only when no stage could generate.
C15_StagesInOrder ==
    last.op = "chat" /\ last.searched =>
        LET gen     == last.gen
            named   == gen.named > 0
            flash   == FirstFlash(gen.listing)
            flashOk == gen.list_models = "ok" /\ flash # {} /\ gen.fallback = "ok"
            firstOk == gen.list_models = "ok" /\ gen.listing # <<>> /\ gen.first = "ok"
        IN  /\ named => /\ last.used = ModelCandidates[gen.named]
                        /\ last.tried = SubSeq(ModelCandidates, 1, gen.named)
            /\ ~named => SubSeq(last.tried, 1, Len(ModelCandidates)) = ModelCandidates
            /\ ~named /\ flashOk => \E k \in flash : last.used = gen.listing[k].name
            /\ ~named /\ ~flashOk /\ firstOk =>
                 last.status = 200 /\ last.used = gen.listing[1].name
            /\ last.status # 200 => ~named /\ ~flashOk /\ ~firstOk

\* C16: a response that is blocked by the safety filter or has no candidates
\* is answered 200 with status success and a placeholder text.
C16_BlockedOrEmptyIsSuccess ==
    last.op = "chat" /\ last.searched /\ Generate(last.gen).status = 200
      /\ last.gen.reply \in {"blocked", "empty"} =>
        /\ last.status = 200 /\ last.kind = "success"
        /\ last.gen.reply = "blocked" => last.echo = "redacted"
        /\ last.gen.reply = "empty" => last.echo = "silent"

\* a chat whose response was blocked is answered with the redacted text and
\* the sources of its context
C16_Witness ==
    /\ last.op = "chat" /\ last.gen.reply = "blocked"
    /\ last.status = 200 /\ last.echo = "redacted"
    /\ last.sources # <<>>

\* C17: when search returns no match, /chat goes on as usual: the context
\* and the context text are empty, the prompt holds the system prompt and
\* the query, a model is called, and a success carries no sources.
C17_EmptySearchStillAnswers ==
    last.op = "chat" /\ last.searched /\ last.results = <<>> =>
        /\ last.context = <<>> /\ last.context_text = <<>>
        /\ last.prompt = FullPrompt(<<>>, last.query)
        /\ last.tried # <<>>
        /\ last.status = Generate(last.gen).status
        /\ last.status = 200 => last.kind = "success" /\ last.sources = <<>>

\* a chat against the empty store was answered with text
C17_Witness ==
    /\ last.op = "chat" /\ last.searched /\ last.results = <<>>
    /\ collection = {}
    /\ last.status = 200 /\ last.echo = "text"

\* C20: an upload without a file part or with an empty filename, and a chat
\* without a query or with an empty one, are answered 400; nothing is
\* extracted, embedded, searched or generated and the store and the active
\* model stay as they were.
C20_MissingInputIs400 ==
    [][/\ last'.op = "upload"
             /\ (~last'.request.has_file \/ last'.request.filename = "") =>
             /\ last'.status = 400
             /\ ~last'.extracted /\ ~last'.called /\ last'.embeds = 0
             /\ last'.events = <<>>
             /\ collection' = collection /\ active_model' = active_model
       /\ last'.op = "chat" /\ (last'.missing \/ last'.query = <<>>) =>
             /\ last'.status = 400
             /\ last'.embeds = 0 /\ ~last'.searched /\ ~last'.queried
             /\ last'.tried = <<>>
             /\ collection' = collection /\ active_model' = active_model]_vars

\* an upload without a file part was answered 400 while the store holds chunks
C20_Witness ==
    /\ last.op = "upload" /\ ~last.request.has_file
    /\ last.status = 400 /\ last.events = <<>>
    /\ collection # {}

\* C21: every embedding call of an ingestion is made in document mode and
\* every embedding call of a search in query mode: the stored vectors are the
\* document-mode vectors of the chunks, and the distances search returns are
\* taken from the query-mode vector of the query.
C21_EmbeddingAsymmetric ==
    /\ last.op \in {"ingest", "upload"} =>
         \A k \in 1..Len(last.modes) : last.modes[k] = "retrieval_document"
    /\ last.op \in {"search", "chat"} =>
         /\ \A k \in 1..Len(last.modes) : last.modes[k] = "retrieval_query"
         /\ \A k \in 1..Len(last.results) :
              last.results[k].distance =
                  Distance(VectorOf(last.query, "retrieval_query"),
                           VectorOf(last.results[k].text, "retrieval_document"))
    /\ \A c \in collection : c.embedding = VectorOf(c.document, "retrieval_document")

\* a search embedded its query and returned chunks whose distance would be
\* another had the query been embedded in document mode
C21_Witness ==
    /\ last.op = "search" /\ last.modes = <<"retrieval_query">>
    /\ Len(last.results) >= 2
    /\ \E k \in 1..Len(last.results) :
         last.results[k].distance #
             Distance(VectorOf(last.query, "retrieval_document"),
                      VectorOf(last.results[k].text, "retrieval_document"))

\* the positions of the search results that lie within RELEVANCE_THRESHOLD of
\* the first result
KeptPositions(results) ==
    {k \in 1..Len(results) :
        results[k].distance <= results[1].distance + RELEVANCE_THRESHOLD}

\* the results at the positions P, in the order of the positions
ResultsAt(results, P) ==
    [j \in 1..Cardinality(P) |->
        results[CHOOSE k \in P : Cardinality({i \in P : i < k}) = j - 1]]

\* C26: the sources of a successful /chat response are the metadata of the
\* search results that lie within the threshold of the first one, one entry
\* per such result and in the order of the results, and the context text of
\* the prompt is the join of the texts of the same results in the same order:
\* a result beyond the threshold is in neither, a result within it in both.
C26_SourcesMatchContext ==
    last.op = "chat" /\ last.status = 200 =>
        LET kept == ResultsAt(last.results, KeptPositions(last.results))
        IN  /\ Len(last.sources) = Len(kept)
            /\ \A j \in 1..Len(kept) : last.sources[j] = kept[j].metadata
            /\ last.context_text = ContextText(kept)
            /\ last.prompt.context = last.context_text

\* a successful /chat whose search returned three chunks, the last of them
\* beyond the threshold: two different sources, the texts of two chunks in
\* the prompt
C26_Witness ==
    /\ last.op = "chat" /\ last.status = 200
    /\ Len(last.results) = 3
    /\ KeptPositions(last.results) = {1, 2}
    /\ Len(last.sources) = 2
    /\ last.sources[1] # last.sources[2]
    /\ last.context_text =
         last.results[1].text \o <<"\n", "\n">> \o last.results[2].text

\* the names of the models the generation service of the model knows
ModelNames ==
    {ModelCandidates[k] : k \in 1..Len(ModelCandidates)}
      \cup {EmbeddingModel.name, ProModel.name, FlashModel.name}

\* C27: ACTIVE_MODEL is None when the app is created.  A request other than
\* /chat, and a /chat request that gets no response from any model, leave
\* it unchanged; a /chat request that answers sets it to the model that
\* produced the answer, the last model generate_content was called on.  So
\* at any time it is None or a model that answered an earlier /chat.
C27_ActiveModelTracksAnswers ==
    /\ active_model = "None"
    /\ [][IF last'.op = "chat" /\ last'.status = 200
          THEN /\ active_model' = last'.used
               /\ last'.used \in ModelNames
               /\ last'.tried # <<>>
               /\ last'.used = last'.tried[Len(last'.tried)]
          ELSE active_model' = active_model]_vars

\* a /chat that found no usable model (503) after an earlier /chat was
\* answered by the listed flash model: ACTIVE_MODEL still names that model
C27_Witness ==
    /\ last.op = "chat" /\ last.status = 503
    /\ last.tried = ModelCandidates
    /\ active_model = FlashModel.name

----------------------------------------------------------------------------
(* Several VectorStore instances in one process                            *)

\* the stores of one process: the ones create_app builds for the two apps of
\* the launcher, and one built directly with VectorStore(...)
AppInstances == {"legal_app", "ghost_app"}
Instances == AppInstances \cup {"direct"}
DefaultCollectionName == "documents"
CollectionNames == {DefaultCollectionName, "scratch"}

\* every instance gets a collection of its own
CollectionKeyPerInstance(instance, collection_name) == instance

\* chromadb.Client(Settings(persist_directory="./chroma_db", ...)) with the
\* same settings gives every instance the one Chroma system of the process,
\* and get_or_create_collection(name) finds a collection by its name
CollectionKey(instance, collection_name) == collection_name

\* the pages ingested in SpecShared, prepared with StoreConfig
SharedPrepared ==
    Prepared({<<"a.txt", <<[text |-> <<"a", "b">>, page |-> 1]>>>>,
              <<"b.pdf", <<[text |-> <<"a", " ">>, page |-> 1]>>>>},
             ChatEmbedBehaviours)

\* In SpecShared cfg maps each instance to its configuration and collection
\* maps each key to the chunks of that Chroma collection.  Ghost field of
\* last: history, the <<op, instance, count>> of the two operations before.
Recent(op, instance, count) ==
    LET before == IF last.op = "none" THEN <<>> ELSE last.history
    IN  SubSeq(before, MaxOf(1, Len(before) - 1), Len(before)) \o <<<<op, instance, count>>>>

UnbuiltStore == [store |-> NoConfig, collection_name |-> "", key |-> "none"]

\* VectorStore(collection_name, chunk_size, chunk_overlap); create_app passes
\* no collection name
ConstructStore ==
    /\ \E instance \in Instances :
         /\ ~cfg[instance].store.constructed
         /\ \E collection_name \in
                 IF instance \in AppInstances THEN {DefaultCollectionName}
                 ELSE CollectionNames :
              cfg' = [cfg EXCEPT ![instance] =
                        [store |-> VectorStoreInit(StoreConfig.chunk_size,
                                                   StoreConfig.chunk_overlap),
                         collection_name |-> collection_name,
                         key |-> CollectionKey(instance, collection_name)]]
    /\ UNCHANGED <<ck, collection, last, active_model, threads, uploadQueue>>

\* instance.ingest_document(file_data, document_id)
IngestVia ==
    /\ \E instance \in Instances, inp \in SharedPrepared :
         /\ cfg[instance].store.constructed
         /\ collection' =
              [collection EXCEPT ![cfg[instance].key] = StoreBatch(@, inp.prepared).coll]
         /\ last' = [op |-> "ingest", via |-> instance, source |-> inp.document_id,
                     documents |-> <<>>,
                     history |-> Recent("ingest", instance, Len(inp.prepared.batch))]
    /\ UNCHANGED <<cfg, ck, active_model, threads, uploadQueue>>

\* instance.delete_document(source)
DeleteVia ==
    /\ \E instance \in Instances, source \in Sources :
         /\ cfg[instance].store.constructed
         /\ collection' =
              [collection EXCEPT ![cfg[instance].key] = DeleteDocument(@, source).coll]
         /\ last' = [op |-> "delete", via |-> instance, source |-> source,
                     documents |-> <<>>,
                     history |-> Recent("delete", instance,
                                        DeleteDocument(collection[cfg[instance].key],
                                                       source).count)]
    /\ UNCHANGED <<cfg, ck, active_model, threads, uploadQueue>>

\* instance.list_documents(), as GET /documents of an app answers it
ListVia ==
    /\ \E instance \in Instances :
         /\ cfg[instance].store.constructed
         /\ last' = [op |-> "list", via |-> instance, source |-> "",
                     documents |-> ListDocuments(collection[cfg[instance].key]),
                     history |-> Recent("list", instance, 0)]
    /\ UNCHANGED <<cfg, ck, collection, active_model, threads, uploadQueue>>

InitShared ==
    /\ cfg = [instance \in Instances |-> UnbuiltStore]
    /\ ck = IdleCk
    /\ collection = [key \in CollectionNames \cup Instances |-> {}]
    /\ last = NoOp
    /\ active_model = "None"
    /\ threads = NoThreads
    /\ uploadQueue = NoQueue

NextShared == ConstructStore \/ IngestVia \/ DeleteVia \/ ListVia

SpecShared == InitShared /\ [][NextShared]_vars

----------------------------------------------------------------------------
(* SpecConc: calls running in threads on one store                         *)

\* the threads in which the server handles requests (app.run serves
\* threaded); each runs one call at a time, from its entry to its return.
\* The requests that arrive are such that the uploads are handled in t1 and
\* the listings and chats in t2; deletes are handled in both.
Workers == {"t1", "t2"}
Ingesters == {"t1"}
Readers == {"t2"}

\* the document the concurrent calls are about
ConcDocument == "a.txt"

ConcFileData ==
    {<<[text |-> <<"a", "b">>, page |-> 1]>>,
     <<[text |-> <<"a", " ">>, page |-> 1], [text |-> <<"a", "b">>, page |-> 2]>>}

\* the embedding service during one call: a vector for every chunk, or an
\* empty vector for the chunk "b", or an exception for it
ConcEmbedBehaviours ==
    {f \in [ChunkTexts(StorePageTexts) -> {"vector", "empty", "error"}] :
       \A t \in DOMAIN f : f[t] # "vector" => t = <<"b">>}

\* the ingest_document calls of SpecConc.  loop: the chunks the two for loops
\* go through, in order; will_return (ghost): the value the call returns by
\* the one-step model of ingest_document, -1 when an embedding call raises
ConcInputs ==
    {[file_data   |-> file_data,
      embed       |-> embed,
      loop        |-> AllChunks(file_data, StoreConfig),
      will_return |->
          IF PrepareBatch(file_data, ConcDocument, StoreConfig, embed).raised THEN -1
          ELSE Len(BatchOf(file_data, ConcDocument, StoreConfig, embed))] :
       file_data \in ConcFileData, embed \in ConcEmbedBehaviours}

NoCall == [op |-> "none"]
Idle(ret) == [pc |-> "idle", call |-> NoCall, ret |-> ret]

\* the ingestions in flight in the threads other than t: for each, whether
\* it found no chunk of the document and no delete holding ids of it when it
\* started, and the value it will return
Ingesting(t) ==
    {[fresh |-> threads[u].call.fresh, will_return |-> threads[u].call.will_return] :
       u \in {u \in Workers \ {t} : threads[u].pc \in {"ingest_loop", "ingest_added"}}}

\* chunk_index is taken from enumerate(chunks)
ChunkIndexFromEnumerate(chunk_counter, i) == i

\* "chunk_index": chunk_counter
ChunkIndexOf(chunk_counter, i) == chunk_counter

\* every embedded chunk is added to the collection as soon as it is embedded
CollectionAddInLoop(coll, entry) == CollectionAdd(coll, <<entry>>).coll

\* lines 110-127: the loop appends to the four lists and makes no call on
\* the collection
CollectionInLoop(coll, entry) == coll

\* ingest_document is entered: lines 94-101
IngestCall ==
    /\ \E t \in Ingesters, inp \in ConcInputs :
         /\ threads[t].pc = "idle"
         /\ threads' = [threads EXCEPT ![t] =
              [pc   |-> "ingest_loop",
               call |-> [op            |-> "ingest",
                         document_id   |-> ConcDocument,
                         file_data     |-> inp.file_data,
                         embed         |-> inp.embed,
                         loop          |-> inp.loop,
                         k             |-> 1,
                         batch         |-> <<>>,
                         chunk_counter |-> 0,
                         kept_at       |-> <<>>,
                         fresh         |->
                             /\ WithSource(collection, ConcDocument) = {}
                             /\ \A u \in Workers :
                                  threads[u].pc = "delete_issue" => threads[u].call.ids = {},
                         will_return   |-> inp.will_return],
               ret  |-> NoCall]]
    /\ UNCHANGED <<cfg, ck, collection, last, active_model, uploadQueue>>

\* the entry of the batch for the chunk at position k of the loop
BatchEntry(call) ==
    LET e == call.loop[call.k]
    IN  [id        |-> ChunkId(call.document_id, e.page, e.i),
         embedding |-> GetEmbedding(e.chunk).vector,
         document  |-> e.chunk,
         metadata  |-> [chunk_index |-> ChunkIndexOf(call.chunk_counter, e.i),
                        source      |-> call.document_id,
                        page        |-> e.page]]

\* one iteration of `for i, chunk in enumerate(chunks)`: an empty chunk is
\* skipped; otherwise get_embedding is called, and the chunk is appended to
\* the batch if the vector is not empty.  An exception of get_embedding ends
\* the call.
IngestChunk ==
    /\ \E t \in Workers :
         /\ threads[t].pc = "ingest_loop"
         /\ threads[t].call.k <= Len(threads[t].call.loop)
         /\ \E call \in {threads[t].call} :
              \E answer \in {IF call.loop[call.k].chunk = <<>> THEN "skipped"
                             ELSE call.embed[call.loop[call.k].chunk]} :
                IF answer = "error"
                THEN /\ threads' = [threads EXCEPT ![t] =
                          Idle([op |-> "ingest", raised |-> TRUE, count |-> 0,
                                was_empty |-> FALSE, added |-> {},
                                call |-> call])]
                     /\ UNCHANGED collection
                ELSE IF answer = "vector"
                THEN /\ threads' = [threads EXCEPT ![t].call =
                          [call EXCEPT !.k = call.k + 1,
                                       !.batch = Append(call.batch, BatchEntry(call)),
                                       !.chunk_counter = call.chunk_counter + 1,
                                       !.kept_at = Append(call.kept_at, call.k)]]
                     /\ collection' = CollectionInLoop(collection, BatchEntry(call))
                ELSE /\ threads' = [threads EXCEPT ![t].call.k = call.k + 1]
                     /\ UNCHANGED collection
    /\ UNCHANGED <<cfg, ck, last, active_model, uploadQueue>>

\* lines 129-136: `if ids: self.collection.add(...)`, the one call of
\* ingest_document on the collection.  The result waits in ret for the
\* return.  Ghost fields of ret: was_empty (the store held no chunk of the
\* document at the add), added (the chunks the add stored), call (the locals
\* of the call).
IngestAdd ==
    /\ \E t \in Workers :
         /\ threads[t].pc = "ingest_loop"
         /\ threads[t].call.k > Len(threads[t].call.loop)
         /\ \E call \in {threads[t].call} :
              \E r \in {StoreBatch(collection, [raised |-> FALSE, batch |-> call.batch])} :
                /\ collection' = r.coll
                /\ threads' = [threads EXCEPT ![t] =
                     [pc   |-> "ingest_added",
                      call |-> call,
                      ret  |-> [op |-> "ingest", raised |-> r.raised, count |-> r.count,
                                was_empty |-> WithSource(collection, call.document_id) = {},
                                added |-> r.coll \ collection,
                                call |-> call]]]
    /\ UNCHANGED <<cfg, ck, last, active_model, uploadQueue>>

\* lines 137-141: the log line and `return len(ids)`
IngestReturn ==
    /\ \E t \in Workers :
         /\ threads[t].pc = "ingest_added"
         /\ threads' = [threads EXCEPT ![t] = Idle(threads[t].ret)]
    /\ UNCHANGED <<cfg, ck, collection, last, active_model, uploadQueue>>

\* delete_document(source) is entered.  Ghost field before: the ids of the
\* chunks of the source that exist when the call starts (an id leaves it
\* when another call removes the chunk: a chunk stored later under the same
\* id is another chunk).
DeleteCall ==
    /\ \E t \in Workers :
         /\ threads[t].pc = "idle"
         /\ threads' = [threads EXCEPT ![t] =
              [pc   |-> "delete_get",
               call |-> [op |-> "delete", source |-> ConcDocument,
                         before |-> IdsOf(WithSource(collection, ConcDocument)),
                         ids |-> {}],
               ret  |-> NoCall]]
    /\ UNCHANGED <<cfg, ck, collection, last, active_model, uploadQueue>>

\* results = self.collection.get(where={"source": source})
DeleteGet ==
    /\ \E t \in Workers :
         /\ threads[t].pc = "delete_get"
         /\ threads' = [threads EXCEPT ![t].pc = "delete_issue",
                                       ![t].call.ids =
                                           IdsOf(WithSource(collection,
                                                            threads[t].call.source))]
    /\ UNCHANGED <<cfg, ck, collection, last, active_model, uploadQueue>>

\* collection.delete(ids): the chunks with these ids that are stored are
\* removed, an id that is not stored is passed over
CollectionDelete(coll, ids) == {c \in coll : c.id \notin ids}

\* `if results['ids']: self.collection.delete(ids=...); return len(...)`,
\* else `return 0`.  Ghost fields of ret: removed (the chunks the delete call
\* took out of the store), left (the chunks that existed when the call
\* started and are stored at its return).
DeleteIssue ==
    /\ \E t \in Workers :
         /\ threads[t].pc = "delete_issue"
         /\ \E call \in {threads[t].call} :
              /\ collection' = IF call.ids # {} THEN CollectionDelete(collection, call.ids)
                               ELSE collection
              /\ threads' =
                   [u \in Workers |->
                      IF u = t
                      THEN Idle([op |-> "delete", source |-> call.source,
                                 count |-> Cardinality(call.ids),
                                 removed |-> Cardinality(collection \ collection'),
                                 before |-> call.before,
                                 left |-> {c \in collection' : c.id \in call.before}])
                      ELSE IF threads[u].pc \in {"delete_get", "delete_issue"}
                      THEN [threads[u] EXCEPT !.call.before =
                              @ \ IdsOf(collection \ collection')]
                      ELSE threads[u]]
    /\ UNCHANGED <<cfg, ck, last, active_model, uploadQueue>>

\* list_documents(): one collection.get() and the grouping of what it
\* returned.  Ghost field ingesting: the ingestions in flight at the get.
ListCall ==
    /\ \E t \in Readers :
         /\ threads[t].pc = "idle"
         /\ threads' = [threads EXCEPT ![t] =
              Idle([op |-> "list", documents |-> ListDocuments(collection),
                    ingesting |-> Ingesting(t)])]
    /\ UNCHANGED <<cfg, ck, collection, last, active_model, uploadQueue>>


\* search(query) is entered and the query is embedded: lines 155-161
SearchEmbed ==
    /\ \E t \in Readers :
         /\ threads[t].pc = "idle"
         /\ threads' = [threads EXCEPT ![t] =
              [pc   |-> "search_query",
               call |-> [op |-> "search", query |-> <<"q", "0">>,
                         mode |-> EmbedQuery(<<"q", "0">>).task_type],
               ret  |-> NoCall]]
    /\ UNCHANGED <<cfg, ck, collection, last, active_model, uploadQueue>>

\* lines 163-184: one collection.query and the formatting of its results.
\* Ghost field ingesting: the ingestions in flight at the query.
SearchQuery ==
    /\ \E t \in Workers :
         /\ threads[t].pc = "search_query"
         /\ \E results \in Search(collection, threads[t].call.query, TOP_K_RESULTS, None) :
              threads' = [threads EXCEPT ![t] =
                Idle([op |-> "search", results |-> results, ingesting |-> Ingesting(t)])]
    /\ UNCHANGED <<cfg, ck, collection, last, active_model, uploadQueue>>

InitConc ==
    /\ cfg = StoreConfig
    /\ ck = IdleCk
    /\ collection = {}
    /\ last = NoOp
    /\ active_model = "None"
    /\ threads = [t \in Workers |-> Idle(NoCall)]
    /\ uploadQueue = NoQueue

NextConc ==
    \/ IngestCall
    \/ IngestChunk
    \/ IngestAdd
    \/ IngestReturn
    \/ DeleteCall
    \/ DeleteGet
    \/ DeleteIssue
    \/ ListCall
    \/ SearchEmbed
    \/ SearchQuery

SpecConc == InitConc /\ [][NextConc]_vars

\* the chunks of the document a returned list_documents or search saw
SeenChunks(ret) ==
    IF ret.op = "list"
    THEN IF ret.documents = <<>> THEN 0 ELSE ret.documents[1].chunks
    ELSE Len(ret.results)

\* the locals of the ingestions in flight and of those that returned a count
IngestLocals ==
    {threads[t].call : t \in {t \in Workers : threads[t].pc = "ingest_loop"}}
      \cup {threads[t].ret.call :
              t \in {t \in Workers : /\ threads[t].pc \in {"idle", "ingest_added"}
                                     /\ threads[t].ret.op = "ingest"
                                     /\ ~threads[t].ret.raised}}

C28_DeleteAtomic ==
    \A t \in Workers :
        threads[t].pc = "idle" /\ threads[t].ret.op = "delete" =>
            /\ threads[t].ret.count = threads[t].ret.removed
            /\ threads[t].ret.left = {}

----------------------------------------------------------------------------
(* SpecQueue: the upload queue                                             *)

\* MockFile(name, size, upload_id), lines 12-17; the files of the model have
\* the upload ids 1..MaxUploads
FileNames == <<"doc1.pdf", "doc2.pdf", "doc3.pdf", "doc4.pdf", "doc5.pdf">>
MockFile(upload_id) ==
    [name      |-> IF upload_id <= Len(FileNames) THEN FileNames[upload_id]
                   ELSE "file.pdf",
     size      |-> 1024,
     upload_id |-> upload_id]
MockFiles == {MockFile(i) : i \in 1..MaxUploads}

\* the ids in a sequence of ids
IdsIn(ids) == {ids[k] : k \in 1..Len(ids)}

\* the completed item stays in the queue
QueueKeep(queue) == queue

\* line 62: self.queue.pop(0)
QueuePop(queue) == Tail(queue)

\* lines 32-41: add(file) appends the item as 'queued' and calls process_next.
\* Each file is handed to the queue once.
QueueAdd ==
    /\ uploadQueue.pc = "idle"
    /\ \E file \in MockFiles :
         /\ file.upload_id \notin IdsIn(uploadQueue.added)
         /\ uploadQueue' =
              [uploadQueue EXCEPT
                 !.queue = Append(@, [file |-> file, status |-> "queued",
                                      id |-> file.upload_id]),
                 !.added = Append(@, file.upload_id),
                 !.pc    = "process_next"]
    /\ UNCHANGED <<cfg, ck, collection, last, active_model, threads>>

\* lines 43-56: process_next returns when an upload is being processed or the
\* queue is empty (no caller does anything after it returns); else it marks
\* the first item 'processing', records its id and completes the upload
ProcessNext ==
    /\ uploadQueue.pc = "process_next"
    /\ uploadQueue' =
         IF uploadQueue.is_processing \/ Len(uploadQueue.queue) = 0
         THEN [uploadQueue EXCEPT !.pc = "idle"]
         ELSE [uploadQueue EXCEPT
                 !.is_processing    = TRUE,
                 !.queue[1].status  = "processing",
                 !.processing_order = Append(@, uploadQueue.queue[1].id),
                 !.pc               = "complete_upload"]
    /\ UNCHANGED <<cfg, ck, collection, last, active_model, threads>>

\* lines 58-64: _complete_upload(item) marks the item 'complete', records its
\* id, removes the first item of the queue, clears is_processing and calls
\* process_next
CompleteUpload ==
    /\ uploadQueue.pc = "complete_upload"
    /\ uploadQueue' =
         [uploadQueue EXCEPT
            !.completed_uploads = Append(@, uploadQueue.queue[1].id),
            !.queue             = QueuePop([uploadQueue.queue EXCEPT ![1].status = "complete"]),
            !.is_processing     = FALSE,
            !.pc                = "process_next"]
    /\ UNCHANGED <<cfg, ck, collection, last, active_model, threads>>

\* lines 85-93: retry_failed() puts the 'error' items back to 'queued' and
\* calls process_next
RetryFailed ==
    /\ uploadQueue.pc = "idle"
    /\ uploadQueue' =
         [uploadQueue EXCEPT
            !.queue = [k \in 1..Len(@) |->
                         IF @[k].status = "error" THEN [@[k] EXCEPT !.status = "queued"]
                         ELSE @[k]],
            !.pc    = "process_next"]
    /\ UNCHANGED <<cfg, ck, collection, last, active_model, threads>>

\* lines 94-96: clear_errors() drops the 'error' items
ClearErrors ==
    /\ uploadQueue.pc = "idle"
    /\ uploadQueue' =
         [uploadQueue EXCEPT
            !.queue = SelectSeq(@, LAMBDA item : item.status # "error")]
    /\ UNCHANGED <<cfg, ck, collection, last, active_model, threads>>

InitQueue ==
    /\ cfg = StoreConfig
    /\ ck = IdleCk
    /\ collection = {}
    /\ last = NoOp
    /\ active_model = "None"
    /\ threads = NoThreads
    /\ uploadQueue = NoQueue

NextQueue ==
    \/ QueueAdd
    \/ ProcessNext
    \/ CompleteUpload
    \/ RetryFailed
    \/ ClearErrors

SpecQueue == InitQueue /\ [][NextQueue]_vars

\* s is a prefix of t
IsPrefix(s, t) == Len(s) <= Len(t) /\ \A k \in 1..Len(s) : s[k] = t[k]

\* C30: at every point at most one item of the queue is 'processing'; the
\* files are processed in the order they were added and completed in the
\* order they were processed, none of them twice; whenever the queue is back
\* at rest every file added has been processed and completed, and once every
\* file added has completed the queue is empty.
C30_SequentialInOrder ==
    LET q == uploadQueue
    IN  /\ Cardinality({k \in 1..Len(q.queue) : q.queue[k].status = "processing"}) <= 1
        /\ IsPrefix(q.processing_order, q.added)
        /\ IsPrefix(q.completed_uploads, q.processing_order)
        /\ \A j, k \in 1..Len(q.processing_order) :
             j # k => q.processing_order[j] # q.processing_order[k]
        /\ Len(q.processing_order) <= Len(q.completed_uploads) + 1
        /\ q.pc = "idle" => q.completed_uploads = q.added
        /\ q.completed_uploads = q.added => q.queue = <<>>

\* three files added in the order 3, 1, 2 have been processed and completed in
\* that order and the queue is empty
C30_Witness ==
    /\ uploadQueue.pc = "idle"
    /\ uploadQueue.added = <<3, 1, 2>>
    /\ uploadQueue.processing_order = <<3, 1, 2>>
    /\ uploadQueue.completed_uploads = <<3, 1, 2>>
    /\ uploadQueue.queue = <<>>
    /\ ~uploadQueue.is_processing

====
